---- MODULE Spec2Model ----
(***************************************************************************)
(* audmon: a terminal audio level meter.                                   *)
(*                                                                         *)
(* Two variants of cmd/audmon.go are modelled:                             *)
(*   "base"      power-law scaler (divisor 235), fixed 0.05 step smoother  *)
(*   "extended"  linear-with-floor scaler (120..240), one-third catch-up   *)
(*               smoother, recentClippingTracker, horizontal flag          *)
(*                                                                         *)
(* float64 volumes are modelled in fixed point: the real value v is the    *)
(* integer v * Scale.  Every constant of the code (1/235^2, 0.05, 1/120,   *)
(* 0.02) is an exact multiple of 1/Scale; the only inexact operation, the  *)
(* division by 3, rounds to nearest as the float64 division does.          *)
(*                                                                         *)
(* The goroutine started by IndicateClippingOccured shares `cancelled` and *)
(* `ClippedRecently` with the audio callback without synchronisation.  It  *)
(* is modelled at the granularity of its memory accesses: the read of      *)
(* `cancelled` (ResetCheck) and the write of ClippedRecently (ResetWrite)  *)
(* are separate steps that interleave with the callback.                   *)
(*                                                                         *)
(* Spec, LiveSpec and SmootherSpec describe the capture phase (device      *)
(* started, UI event loop running, main goroutine blocked on <-done);      *)
(* LifeSpec and LifeLiveSpec describe the whole process from launch to     *)
(* os.Exit, with fewer capture periods.                                    *)
(***************************************************************************)
EXTENDS Integers, Sequences, FiniteSets, TLC

VARIABLES
    variant,              \* which of the two versions of cmd/audmon.go runs
    flagHorizontal,       \* -h / --horizontal
    maxSample,            \* loudest sample of the last period (uint8)
    volume,               \* raw volume of the last period, fixed point
    prevVolumeDisplayed,  \* displayed volume carried between periods
    ClippedRecently,      \* recentClippingTracker.ClippedRecently
    cancelPendingReset,   \* 0 = nil, else index of the reset it cancels
    resets,               \* the reset goroutines, in the order they were started
    updates,              \* closures queued with app.QueueUpdateDraw
    fillerColor,          \* background colour of monitorBarFiller
    fillerSize,           \* fixed size given to monitorBarFiller
    nPeriods,             \* number of capture periods processed
    pcMain,               \* where the main goroutine is in Execute
    deviceRunning,        \* capture started and not yet uninitialised
    uiLoop,               \* app.Run: "running" or "stopped"
    uiGo,                 \* the goroutine around app.Run: "run", "send", "end"
    done,                 \* values buffered in the done channel (capacity 1)
    exitStatus            \* -1 while the process runs, else its exit status

\* the process life cycle
life == <<pcMain, deviceRunning, uiLoop, uiGo, done, exitStatus>>

vars == <<variant, flagHorizontal, maxSample, volume, prevVolumeDisplayed,
          ClippedRecently, cancelPendingReset, resets, updates, fillerColor,
          fillerSize, nPeriods, pcMain, deviceRunning, uiLoop, uiGo, done,
          exitStatus>>

(***************************************************************************)
(* Bounds of the model.                                                    *)
(***************************************************************************)
MaxPeriods == 4     \* capture periods in Spec
MaxClips == 2       \* clip events (reset goroutines) in Spec
MaxQueue == 1       \* queued UI updates not yet executed
MaxBuf == 2         \* samples per modelled buffer
MaxHold == 22       \* periods in SmootherSpec
MaxLifePeriods == 2 \* capture periods in LifeSpec
PeakStride == 4     \* spacing of the peaks drawn in SmootherSpec

(***************************************************************************)
(* Fixed point.                                                            *)
(***************************************************************************)
Scale == 235 * 235 * 20 * 6

Byte == 0..255

\* The sample values drawn for the buffers of Spec.
Samples == {0, 180, 240, 255}

Buffers == UNION {[1..n -> Samples] : n \in 1..MaxBuf}

\* The inner rectangle of the bar reported by the terminal.
barWidth == 7
barHeight == 4

volumeClipWarningDuration == 3

(***************************************************************************)
(* Peak Extractor: the loop over pSample.                                  *)
(***************************************************************************)
RECURSIVE MaxSampleFrom(_, _, _)
MaxSampleFrom(pSample, i, acc) ==
    IF i > Len(pSample) THEN acc
    ELSE MaxSampleFrom(pSample, i + 1,
                       IF pSample[i] > acc THEN pSample[i] ELSE acc)

MaxSample(pSample) == MaxSampleFrom(pSample, 1, 0)

Min(a, b) == IF a < b THEN a ELSE b
Max(a, b) == IF a > b THEN a ELSE b

(***************************************************************************)
(* Volume Scaler.                                                          *)
(***************************************************************************)
\* math.Min(math.Pow(float64(maxSample)/235, 2), 1)
VolumeBase(p) == Min((p * p) * (Scale \div (235 * 235)), Scale)

\* maxSample-120 is a uint8 subtraction: it wraps modulo 256.
SubUint8(a, b) == (a - b) % 256

\* the scaled peak without the upper clamp
VolumeExtendedNoClamp(p) == Max(SubUint8(p, 120) * (Scale \div 120), 0)

\* math.Max(math.Min(float64(maxSample-120)/120, 1), 0)
VolumeExtended(p) == Max(Min(SubUint8(p, 120) * (Scale \div 120), Scale), 0)

Volume(v, p) == IF v = "base" THEN VolumeBase(p) ELSE VolumeExtended(p)

\* if maxSample == 240 { clippingTracker.IndicateClippingOccured() }
ClipDetected(v, p) == v = "extended" /\ p = 240

(***************************************************************************)
(* Display Smoother.                                                       *)
(***************************************************************************)
Step == Scale \div 20          \* 0.05
SnapThreshold == Scale \div 50 \* 0.02

\* half of the gap instead of a third
DivTwo(x) == (x + 1) \div 2

\* x / 3 in float64, rounded to nearest
DivThree(x) == (x + 1) \div 3

\* a throttle on rising volume only: falling volume is shown at once
SmoothBaseFastFall(prev, vol) ==
    IF vol > prev
    THEN IF vol - prev > Step THEN prev + Step ELSE vol
    ELSE vol

\* a fixed step that never snaps to the raw value
SmoothBaseNoSnap(prev, vol) ==
    IF vol > prev THEN prev + Step
    ELSE IF prev > vol THEN prev - Step ELSE vol

SmoothBase(prev, vol) ==
    IF vol > prev
    THEN IF vol - prev > Step THEN prev + Step ELSE vol
    ELSE IF prev - vol > Step THEN prev - Step ELSE vol

\* the falling branch adds the lost volume instead of subtracting it
SmoothExtendedWrongSign(prev, vol) ==
    IF vol > prev
    THEN IF vol - prev > SnapThreshold
         THEN prev + DivThree(vol - prev) ELSE vol
    ELSE IF prev - vol > SnapThreshold
         THEN prev + DivThree(prev - vol) ELSE vol

SmoothExtended(prev, vol) ==
    IF vol > prev
    THEN IF vol - prev > SnapThreshold
         THEN prev + DivThree(vol - prev) ELSE vol
    ELSE IF prev - vol > SnapThreshold
         THEN prev - DivThree(prev - vol) ELSE vol

Smooth(v, prev, vol) ==
    IF v = "base" THEN SmoothBase(prev, vol) ELSE SmoothExtended(prev, vol)

(***************************************************************************)
(* Clip Tracker.                                                           *)
(***************************************************************************)
\* a cancel that reaches no reset
CancelPendingNone(rs, cur) == rs

\* c.cancelPendingReset(): sets the `cancelled` captured by the last reset
CancelPending(rs, cur) ==
    IF cur = 0 THEN rs ELSE [rs EXCEPT ![cur].cancelled = TRUE]

\* the goroutine started by IndicateClippingOccured, about to Sleep
NewReset ==
    [cancelled |-> FALSE, remaining |-> volumeClipWarningDuration,
     pc |-> "sleeping"]

\* a clip event that arms the reset but leaves the flag as it was
IndicateClippingOccuredNoFlag ==
    /\ resets' = Append(CancelPending(resets, cancelPendingReset), NewReset)
    /\ ClippedRecently' = ClippedRecently
    /\ cancelPendingReset' = Len(resets) + 1

IndicateClippingOccured ==
    /\ resets' = Append(CancelPending(resets, cancelPendingReset), NewReset)
    /\ ClippedRecently' = TRUE
    /\ cancelPendingReset' = Len(resets) + 1

(***************************************************************************)
(* Render Adapter.                                                         *)
(***************************************************************************)
\* the product rounded to nearest instead of floored
FillerLengthRounded(vd, barLength) ==
    (2 * (Scale - vd) * barLength + Scale) \div (2 * Scale)

\* int(math.Floor((1-volumeDisplayed)*float64(barLength)))
FillerLength(vd, barLength) == ((Scale - vd) * barLength) \div Scale

BarLength == IF flagHorizontal THEN barWidth ELSE barHeight

\* the process has not called os.Exit
Alive == pcMain # "exited"

\* The capture phase: device.Start has returned, the UI event loop runs and
\* the main goroutine blocks on <-done.
Init ==
    /\ variant \in {"base", "extended"}
    /\ flagHorizontal \in (IF variant = "base" THEN {FALSE} ELSE BOOLEAN)
    /\ maxSample = 0
    /\ volume = 0
    /\ prevVolumeDisplayed = 0
    /\ ClippedRecently = FALSE
    /\ cancelPendingReset = 0
    /\ resets = <<>>
    /\ updates = <<>>
    /\ fillerColor = "default"
    /\ fillerSize = 0
    /\ nPeriods = 0
    /\ pcMain = "wait"
    /\ deviceRunning = TRUE
    /\ uiLoop = "running"
    /\ uiGo = "run"
    /\ done = 0
    /\ exitStatus = -1

(***************************************************************************)
(* The Data callback of the capture device, one call per period.           *)
(***************************************************************************)
\* a callback that resizes the bar itself instead of queueing the update
DataResizesDirectly(pSample) ==
    LET peak == MaxSample(pSample)
        vol == Volume(variant, peak)
        volumeDisplayed == Smooth(variant, prevVolumeDisplayed, vol)
    IN  /\ maxSample' = peak
        /\ IF ClipDetected(variant, peak)
           THEN IndicateClippingOccured
           ELSE UNCHANGED <<resets, ClippedRecently, cancelPendingReset>>
        /\ volume' = vol
        /\ prevVolumeDisplayed' = volumeDisplayed
        /\ fillerSize' = FillerLength(volumeDisplayed, BarLength)
        /\ nPeriods' = nPeriods + 1
        /\ UNCHANGED life
        /\ UNCHANGED <<variant, flagHorizontal, fillerColor, updates>>

Data(pSample) ==
    LET peak == MaxSample(pSample)
        vol == Volume(variant, peak)
        volumeDisplayed == Smooth(variant, prevVolumeDisplayed, vol)
    IN  /\ maxSample' = peak
        /\ IF ClipDetected(variant, peak)
           THEN IndicateClippingOccured
           ELSE UNCHANGED <<resets, ClippedRecently, cancelPendingReset>>
        /\ volume' = vol
        /\ prevVolumeDisplayed' = volumeDisplayed
        /\ updates' = Append(updates, volumeDisplayed)
        /\ nPeriods' = nPeriods + 1
        /\ UNCHANGED life
        /\ UNCHANGED <<variant, flagHorizontal, fillerColor, fillerSize>>

(***************************************************************************)
(* The closure handed to QueueUpdateDraw, run by the UI event loop.        *)
(***************************************************************************)
\* a colour switch that never goes back to the default
NextColorSticky ==
    IF variant = "base" THEN fillerColor
    ELSE IF ClippedRecently THEN "clipping" ELSE fillerColor

NextColor ==
    IF variant = "base" THEN fillerColor
    ELSE IF fillerColor = "clipping"
         THEN IF ~ClippedRecently THEN "default" ELSE fillerColor
         ELSE IF ClippedRecently THEN "clipping" ELSE fillerColor

UIUpdate ==
    /\ Alive
    /\ uiLoop = "running"
    /\ updates # <<>>
    /\ fillerColor' = NextColor
    /\ fillerSize' = FillerLength(Head(updates), BarLength)
    /\ updates' = Tail(updates)
    /\ UNCHANGED life
    /\ UNCHANGED <<variant, flagHorizontal, maxSample, volume,
                   prevVolumeDisplayed, ClippedRecently, cancelPendingReset,
                   resets, nPeriods>>

(***************************************************************************)
(* Time and the reset goroutines.                                          *)
(***************************************************************************)
Sleeping(i) == resets[i].pc = "sleeping" /\ resets[i].remaining > 0

\* one unit (a second) of volumeClipWarningDuration passes
Tick ==
    /\ Alive
    /\ \E i \in DOMAIN resets : Sleeping(i)
    /\ resets' = [i \in DOMAIN resets |->
                    IF Sleeping(i)
                    THEN [resets[i] EXCEPT !.remaining = @ - 1]
                    ELSE resets[i]]
    /\ UNCHANGED life
    /\ UNCHANGED <<variant, flagHorizontal, maxSample, volume,
                   prevVolumeDisplayed, ClippedRecently, cancelPendingReset,
                   updates, fillerColor, fillerSize, nPeriods>>

\* time.Sleep returned; `if !cancelled`
ResetCheck(i) ==
    /\ Alive
    /\ i \in DOMAIN resets
    /\ resets[i].pc = "sleeping"
    /\ resets[i].remaining = 0
    /\ resets' = [resets EXCEPT ![i].pc =
                    IF resets[i].cancelled THEN "skipped" ELSE "fire"]
    /\ UNCHANGED life
    /\ UNCHANGED <<variant, flagHorizontal, maxSample, volume,
                   prevVolumeDisplayed, ClippedRecently, cancelPendingReset,
                   updates, fillerColor, fillerSize, nPeriods>>

\* a reset that returns without clearing the flag
ResetWriteNoClear(i) ==
    /\ Alive
    /\ i \in DOMAIN resets
    /\ resets[i].pc = "fire"
    /\ resets' = [resets EXCEPT ![i].pc = "cleared"]
    /\ UNCHANGED life
    /\ UNCHANGED <<variant, flagHorizontal, maxSample, volume,
                   prevVolumeDisplayed, ClippedRecently, cancelPendingReset,
                   updates, fillerColor, fillerSize, nPeriods>>

\* c.ClippedRecently = false
ResetWrite(i) ==
    /\ Alive
    /\ i \in DOMAIN resets
    /\ resets[i].pc = "fire"
    /\ ClippedRecently' = FALSE
    /\ resets' = [resets EXCEPT ![i].pc = "cleared"]
    /\ UNCHANGED life
    /\ UNCHANGED <<variant, flagHorizontal, maxSample, volume,
                   prevVolumeDisplayed, cancelPendingReset,
                   updates, fillerColor, fillerSize, nPeriods>>

Period ==
    \E pSample \in Buffers :
        /\ Alive
        /\ deviceRunning
        /\ nPeriods < MaxPeriods
        /\ Len(updates) < MaxQueue
        /\ ClipDetected(variant, MaxSample(pSample)) => Len(resets) < MaxClips
        /\ Data(pSample)

Next ==
    \/ Period
    \/ UIUpdate
    \/ Tick
    \/ \E i \in DOMAIN resets : ResetCheck(i)
    \/ \E i \in DOMAIN resets : ResetWrite(i)

Spec == Init /\ [][Next]_vars

(***************************************************************************)
(* Time passes and the Go scheduler runs every runnable goroutine.         *)
(***************************************************************************)
Fairness ==
    /\ WF_vars(Tick)
    /\ \A i \in 1..(MaxClips + 1) :
          WF_vars(ResetCheck(i)) /\ WF_vars(ResetWrite(i))

LiveSpec == Spec /\ Fairness

(***************************************************************************)
(* Clip Tracker claims.                                                    *)
(***************************************************************************)
\* the reset armed by the most recent clip event has not yet expired
LatestPending ==
    /\ cancelPendingReset # 0
    /\ resets[cancelPendingReset].remaining > 0

\* C1: once a clip event has completed, ClippedRecently is true in every
\* reachable state until the reset timer armed by that most recent clip
\* event expires (no superseded reset clears the flag).
C1_RaceFreeCancellation == LatestPending => ClippedRecently

\* C2: with a single clip event, the flag goes Clear -> ClippedRecently only
\* at that clip event, is true for the whole duration of its reset timer and
\* until the reset fires, and goes back to Clear in the one step in which
\* that reset, its timer expired, writes the flag.
C2_SingleClip ==
    /\ [](Len(resets) = 1 =>
            /\ resets[1].pc \in {"sleeping", "fire"} => ClippedRecently
            /\ resets[1].pc = "cleared" => ~ClippedRecently
            /\ resets[1].pc # "skipped")
    /\ [][/\ (~ClippedRecently /\ ClippedRecently')
               => Len(resets') = Len(resets) + 1
          /\ (Len(resets) = 0 /\ Len(resets') = 1)
               => (~ClippedRecently /\ ClippedRecently')
          /\ (Len(resets') = 1 /\ ClippedRecently /\ ~ClippedRecently')
               => /\ resets[1].remaining = 0
                  /\ resets[1].pc = "fire"
                  /\ resets'[1].pc = "cleared"]_vars

C2_Witness ==
    /\ Len(resets) = 1
    /\ resets[1].pc = "cleared"
    /\ ~ClippedRecently
    /\ nPeriods >= 3
    /\ maxSample = 180

\* C3: when a second clip event occurs while the reset armed by the first is
\* still waiting, the first reset never gets to clear the flag, the flag is
\* true for the whole duration measured from the second event, and with two
\* clip events only the second reset clears it.
C3_SecondClipRestarts ==
    /\ []((/\ Len(resets) >= 2
            /\ resets[1].pc \in {"sleeping", "skipped"}
            /\ resets[2].remaining > 0) => ClippedRecently)
    /\ [][/\ \A i \in 1..(Len(resets) - 1) :
                resets[i].pc = "sleeping" => resets'[i].pc # "fire"
          /\ (/\ Len(resets') = 2
              /\ resets[1].pc \in {"sleeping", "skipped"}
              /\ ClippedRecently /\ ~ClippedRecently')
               => /\ resets[2].remaining = 0
                  /\ resets[2].pc = "fire"
                  /\ resets'[2].pc = "cleared"]_vars

C3_Witness ==
    /\ Len(resets) = 2
    /\ resets[1].pc = "skipped"
    /\ resets[1].remaining = 0
    /\ resets[2].remaining > 0
    /\ ClippedRecently

\* C4: under fair scheduling of time and of the reset goroutines, once the
\* clip events have ended the tracker reaches Clear and stays Clear; the
\* flag never comes back without a further clip event.
C4_NeverStuck ==
    /\ <>[](~ClippedRecently)
    /\ [][(~ClippedRecently /\ ClippedRecently')
            => Len(resets') = Len(resets) + 1]_vars

C4_Witness ==
    /\ Len(resets) = MaxClips
    /\ \A i \in DOMAIN resets : resets[i].pc \in {"cleared", "skipped"}
    /\ resets[1].cancelled
    /\ resets[1].pc = "cleared"
    /\ ~ClippedRecently

(***************************************************************************)
(* Volume Scaler claims.                                                   *)
(***************************************************************************)
\* the step is one run of the Data callback
IsPeriod == nPeriods' = nPeriods + 1

\* C5: in the extended variant every period whose peak is in 240..255 yields
\* raw volume exactly 1 and raises a clip event in that same period.
C5_ClipAtOrAboveThreshold ==
    [][(IsPeriod /\ variant = "extended" /\ maxSample' >= 240)
        => /\ volume' = Scale
           /\ Len(resets') = Len(resets) + 1
           /\ ClippedRecently']_vars

\* C6: in the extended variant every peak below the noise floor 120 yields
\* raw volume 0 and peaks from 120 to 240 yield (peak - 120) / 120.
C6_LinearWithFloor ==
    (variant = "extended" /\ nPeriods > 0)
        => /\ maxSample < 120 => volume = 0
           /\ maxSample \in 120..240
                => volume = (maxSample - 120) * (Scale \div 120)

\* C7: in both variants the raw volume is monotonically non-decreasing in
\* the peak over 0..255.
C7_ScalerMonotone ==
    nPeriods > 0
        => \A q \in Byte :
             /\ q <= maxSample => Volume(variant, q) <= volume
             /\ q >= maxSample => volume <= Volume(variant, q)

\* C8: from previous displayed volume 0 and Clip State Clear, each of the
\* first five periods, when silent, leaves the displayed volume at 0 and the
\* Clip State Clear.
C8_SilenceStaysAtZero ==
    [][(/\ IsPeriod
        /\ nPeriods < 5
        /\ maxSample' = 0
        /\ prevVolumeDisplayed = 0
        /\ ~ClippedRecently)
        => (prevVolumeDisplayed' = 0 /\ ~ClippedRecently')]_vars

(***************************************************************************)
(* The Display Smoother under a raw volume held constant: the displayed    *)
(* volume starts at any value the scaler can have left it at, and every    *)
(* period brings the same peak.                                            *)
(***************************************************************************)
SmootherPeaks ==
    {p \in Byte : p % PeakStride = 0} \cup {119, 120, 121, 235, 239, 255}

SmootherInit ==
    /\ variant \in {"base", "extended"}
    /\ flagHorizontal = FALSE
    /\ maxSample = 0
    /\ volume = 0
    /\ prevVolumeDisplayed \in {Volume(variant, p) : p \in SmootherPeaks}
    /\ ClippedRecently = FALSE
    /\ cancelPendingReset = 0
    /\ resets = <<>>
    /\ updates = <<>>
    /\ fillerColor = "default"
    /\ fillerSize = 0
    /\ nPeriods = 0
    /\ pcMain = "wait"
    /\ deviceRunning = TRUE
    /\ uiLoop = "running"
    /\ uiGo = "run"
    /\ done = 0
    /\ exitStatus = -1

HoldPeriod ==
    \E p \in SmootherPeaks :
        /\ Alive
        /\ deviceRunning
        /\ nPeriods < MaxHold
        /\ nPeriods > 0 => p = maxSample
        /\ Data(<<p>>)

SmootherSpec == SmootherInit /\ [][HoldPeriod]_vars

\* calls after which the displayed volume equals a raw volume held constant
ConvergeCalls == IF variant = "base" THEN 20 ELSE 11

\* C9: with the raw volume held constant the displayed volume equals it
\* after at most 20 calls (fixed 0.05 step) or 11 calls (one-third catch-up,
\* 0.02 snap), from any previous value, and stays equal on every later call.
C9_ConvergesExactly ==
    /\ [](nPeriods >= ConvergeCalls => prevVolumeDisplayed = volume)
    /\ [][(nPeriods > 0 /\ prevVolumeDisplayed = volume /\ IsPeriod)
            => prevVolumeDisplayed' = volume']_vars

\* previous 0, raw 1: equal after the last allowed call and not before
C9_Witness ==
    /\ nPeriods = ConvergeCalls
    /\ volume = Scale
    /\ prevVolumeDisplayed = Scale
    /\ updates[1] = (IF variant = "base" THEN Step ELSE DivThree(Scale))
    /\ updates[ConvergeCalls - 1] < Scale

Between(x, a, b) == Min(a, b) <= x /\ x <= Max(a, b)

\* C10: on every call the new displayed volume lies between the previous
\* displayed volume and the raw volume, and equals the previous one when the
\* previous one equals the raw volume.
C10_NeverOvershoots ==
    [][IsPeriod
        => /\ Between(prevVolumeDisplayed', prevVolumeDisplayed, volume')
           /\ prevVolumeDisplayed = volume'
                => prevVolumeDisplayed' = prevVolumeDisplayed]_vars

\* a falling call that moved strictly between raw and previous, and a call
\* at steady state
C10_Witness ==
    /\ variant = "extended"
    /\ nPeriods >= 3
    /\ updates[1] > volume
    /\ updates[2] < updates[1]
    /\ updates[2] > volume
    /\ updates[nPeriods] = volume
    /\ updates[nPeriods - 1] = volume

(***************************************************************************)
(* Range of the volumes.                                                   *)
(***************************************************************************)
InUnitRange(x) == 0 <= x /\ x <= Scale

\* C11: after any sequence of periods the raw volume of the period and the
\* displayed volume carried to the next one are within [0,1], as is every
\* displayed volume handed to the UI and the scaler's result for every peak.
C11_VolumesInUnitRange ==
    /\ InUnitRange(volume)
    /\ InUnitRange(prevVolumeDisplayed)
    /\ \A i \in DOMAIN updates : InUnitRange(updates[i])
    /\ \A p \in Byte : InUnitRange(Volume(variant, p))

\* the clamp acted (peak 255) and the displayed volume is strictly inside
C11_Witness ==
    /\ nPeriods >= 2
    /\ maxSample = 255
    /\ volume = Scale
    /\ prevVolumeDisplayed > 0
    /\ prevVolumeDisplayed < Scale

(***************************************************************************)
(* Render Adapter claims.                                                  *)
(***************************************************************************)
\* the step is one run of a queued update by the UI event loop
IsUpdate == Len(updates') = Len(updates) - 1

\* height of the inner rectangle when vertical, width when horizontal
TotalBarLength == IF flagHorizontal THEN barWidth ELSE barHeight

\* (1 - volumeDisplayed) * total bar length of the update run, in 1/Scale
EmptyLength == (Scale - Head(updates)) * TotalBarLength

\* C12 as claimed: the filler length handed to the UI is
\* round((1 - Displayed Volume) * total bar length).
C12_FillerIsRounded ==
    [][IsUpdate
        => /\ (2 * fillerSize' - 1) * Scale <= 2 * EmptyLength
           /\ 2 * EmptyLength < (2 * fillerSize' + 1) * Scale]_vars

\* C12: the filler length handed to the UI is
\* floor((1 - Displayed Volume) * total bar length), the total bar length
\* being the inner-rectangle height when vertical and the width when
\* horizontal.
C12_FillerIsFloored ==
    [][IsUpdate
        => /\ fillerSize' * Scale <= EmptyLength
           /\ EmptyLength < (fillerSize' + 1) * Scale]_vars

\* the last update was run on a product whose fraction is at least one half
C12_Witness ==
    /\ nPeriods >= 1
    /\ updates = <<>>
    /\ flagHorizontal
    /\ fillerSize * Scale < (Scale - prevVolumeDisplayed) * barWidth
    /\ (2 * fillerSize + 1) * Scale <= 2 * (Scale - prevVolumeDisplayed) * barWidth
    /\ (Scale - prevVolumeDisplayed) * barWidth < (fillerSize + 1) * Scale

\* C14: the Data callback leaves the bar's size and colour alone and only
\* appends its update to the queue; size and colour change only in a step
\* of the UI event loop that takes one queued update off the queue.
C14_UIMutatedOnlyByQueuedUpdates ==
    [][/\ IsPeriod
           => /\ fillerColor' = fillerColor
              /\ fillerSize' = fillerSize
              /\ updates' = Append(updates, prevVolumeDisplayed')
       /\ (fillerColor' # fillerColor \/ fillerSize' # fillerSize)
           => /\ updates # <<>>
              /\ updates' = Tail(updates)
              /\ nPeriods' = nPeriods]_vars

\* one update has resized the bar while the next one waits in the queue
C14_Witness ==
    /\ nPeriods >= 2
    /\ Len(updates) = 1
    /\ fillerSize > 0

\* C18: after a queued update has run, the filler's background is the
\* clipping colour exactly when the update read ClippedRecently as true; an
\* update that reads it false on a clipping-coloured filler restores the
\* default colour.
C18_ColourFollowsFlag ==
    [][IsUpdate
        => /\ (fillerColor' = "clipping") <=> ClippedRecently
           /\ (fillerColor = "clipping" /\ ~ClippedRecently)
                => fillerColor' = "default"]_vars

\* the filler was switched to the clipping colour, the flag has since been
\* cleared by its reset, and the update that will restore the colour waits
C18_Witness ==
    /\ fillerColor = "clipping"
    /\ ~ClippedRecently
    /\ Len(resets) = 1
    /\ resets[1].pc = "cleared"
    /\ updates # <<>>

(***************************************************************************)
(* Display Smoother: symmetry and rate of change.                          *)
(***************************************************************************)
Abs(x) == IF x < 0 THEN -x ELSE x

\* C16: smoothing (p, r) and the mirrored pair (1 - p, 1 - r) move by the
\* same amount in opposite directions, and so do (p, r) and the swapped
\* pair (r, p): the size of the change depends on the gap, not its sign.
C16_SmootherSymmetric ==
    [][IsPeriod
        => LET p == prevVolumeDisplayed
               r == volume'
               moved == prevVolumeDisplayed' - prevVolumeDisplayed
           IN  /\ Smooth(variant, Scale - p, Scale - r) - (Scale - p) = -moved
               /\ Smooth(variant, r, p) - r = -moved]_vars

\* rising from 0 towards 1 and then held there, in the throttled range
C16_Witness ==
    /\ nPeriods = 2
    /\ updates[1] > 0
    /\ updates[2] > updates[1]
    /\ updates[2] < volume

\* C17: with the fixed step the change per call is at most 0.05, the step
\* when the gap exceeds 0.05 and the gap (snap) otherwise; with the
\* fractional catch-up the change is a third of the gap when the gap
\* exceeds 0.02 and the gap (snap) otherwise.  The change is towards raw.
C17_RateBounded ==
    [][IsPeriod
        => LET gap == Abs(volume' - prevVolumeDisplayed)
               change == Abs(prevVolumeDisplayed' - prevVolumeDisplayed)
           IN  /\ Abs(volume' - prevVolumeDisplayed') = gap - change
               /\ variant = "base"
                    => /\ 20 * change <= Scale
                       /\ 20 * gap <= Scale => change = gap
                       /\ 20 * gap > Scale => 20 * change = Scale
               /\ variant = "extended"
                    => /\ 50 * gap <= Scale => change = gap
                       /\ 50 * gap > Scale => Abs(3 * change - gap) <= 1]_vars

\* a falling call of the fractional variant that moved a third of the gap
C17_Witness ==
    /\ variant = "extended"
    /\ nPeriods = 1
    /\ volume = 0
    /\ updates[1] > SnapThreshold
    /\ updates[1] < Scale

(***************************************************************************)
(* The process life cycle: launch, capture, shutdown.                      *)
(***************************************************************************)
\* Execute has built the UI and the device, registered the signals and
\* started the goroutine that runs the UI event loop.
LaunchInit ==
    /\ variant \in {"base", "extended"}
    /\ flagHorizontal \in (IF variant = "base" THEN {FALSE} ELSE BOOLEAN)
    /\ maxSample = 0
    /\ volume = 0
    /\ prevVolumeDisplayed = 0
    /\ ClippedRecently = FALSE
    /\ cancelPendingReset = 0
    /\ resets = <<>>
    /\ updates = <<>>
    /\ fillerColor = "default"
    /\ fillerSize = 0
    /\ nPeriods = 0
    /\ pcMain = "start"
    /\ deviceRunning = FALSE
    /\ uiLoop = "running"
    /\ uiGo = "run"
    /\ done = 0
    /\ exitStatus = -1

\* device.Start(); on an error log.Fatalf exits with status 1
DeviceStart(ok) ==
    /\ pcMain = "start"
    /\ IF ok
       THEN /\ deviceRunning' = TRUE
            /\ pcMain' = "wait"
            /\ exitStatus' = exitStatus
       ELSE /\ deviceRunning' = deviceRunning
            /\ pcMain' = "exited"
            /\ exitStatus' = 1
    /\ UNCHANGED <<uiLoop, uiGo, done>>
    /\ UNCHANGED <<variant, flagHorizontal, maxSample, volume,
                   prevVolumeDisplayed, ClippedRecently, cancelPendingReset,
                   resets, updates, fillerColor, fillerSize, nPeriods>>

\* SIGINT or SIGTERM is delivered to the done channel; it is dropped when
\* the channel already holds a value
Signal ==
    /\ Alive
    /\ done = 0
    /\ done' = 1
    /\ UNCHANGED <<pcMain, deviceRunning, uiLoop, uiGo, exitStatus>>
    /\ UNCHANGED <<variant, flagHorizontal, maxSample, volume,
                   prevVolumeDisplayed, ClippedRecently, cancelPendingReset,
                   resets, updates, fillerColor, fillerSize, nPeriods>>

\* app.Run returns on its own, with or without an error
UIReturn ==
    /\ Alive
    /\ uiGo = "run"
    /\ uiLoop = "running"
    /\ uiLoop' = "stopped"
    /\ uiGo' = "send"
    /\ UNCHANGED <<pcMain, deviceRunning, done, exitStatus>>
    /\ UNCHANGED <<variant, flagHorizontal, maxSample, volume,
                   prevVolumeDisplayed, ClippedRecently, cancelPendingReset,
                   resets, updates, fillerColor, fillerSize, nPeriods>>

\* a goroutine that returns without waking the main goroutine
UISendNothing ==
    /\ Alive
    /\ uiGo = "send"
    /\ uiGo' = "end"
    /\ UNCHANGED <<pcMain, deviceRunning, uiLoop, done, exitStatus>>
    /\ UNCHANGED <<variant, flagHorizontal, maxSample, volume,
                   prevVolumeDisplayed, ClippedRecently, cancelPendingReset,
                   resets, updates, fillerColor, fillerSize, nPeriods>>

\* done <- syscall.SIGTERM; blocks while the channel is full
UISend ==
    /\ Alive
    /\ uiGo = "send"
    /\ done = 0
    /\ done' = 1
    /\ uiGo' = "end"
    /\ UNCHANGED <<pcMain, deviceRunning, uiLoop, exitStatus>>
    /\ UNCHANGED <<variant, flagHorizontal, maxSample, volume,
                   prevVolumeDisplayed, ClippedRecently, cancelPendingReset,
                   resets, updates, fillerColor, fillerSize, nPeriods>>

\* <-done
MainReceive ==
    /\ pcMain = "wait"
    /\ done > 0
    /\ done' = done - 1
    /\ pcMain' = "uninit"
    /\ UNCHANGED <<deviceRunning, uiLoop, uiGo, exitStatus>>
    /\ UNCHANGED <<variant, flagHorizontal, maxSample, volume,
                   prevVolumeDisplayed, ClippedRecently, cancelPendingReset,
                   resets, updates, fillerColor, fillerSize, nPeriods>>

\* device.Uninit()
DeviceUninit ==
    /\ pcMain = "uninit"
    /\ deviceRunning' = FALSE
    /\ pcMain' = "stop"
    /\ UNCHANGED <<uiLoop, uiGo, done, exitStatus>>
    /\ UNCHANGED <<variant, flagHorizontal, maxSample, volume,
                   prevVolumeDisplayed, ClippedRecently, cancelPendingReset,
                   resets, updates, fillerColor, fillerSize, nPeriods>>

\* app.Stop(): the event loop ends and app.Run returns
AppStop ==
    /\ pcMain = "stop"
    /\ uiLoop' = "stopped"
    /\ uiGo' = (IF uiGo = "run" THEN "send" ELSE uiGo)
    /\ pcMain' = "exit"
    /\ UNCHANGED <<deviceRunning, done, exitStatus>>
    /\ UNCHANGED <<variant, flagHorizontal, maxSample, volume,
                   prevVolumeDisplayed, ClippedRecently, cancelPendingReset,
                   resets, updates, fillerColor, fillerSize, nPeriods>>

\* os.Exit(0)
Exit ==
    /\ pcMain = "exit"
    /\ pcMain' = "exited"
    /\ exitStatus' = 0
    /\ UNCHANGED <<deviceRunning, uiLoop, uiGo, done>>
    /\ UNCHANGED <<variant, flagHorizontal, maxSample, volume,
                   prevVolumeDisplayed, ClippedRecently, cancelPendingReset,
                   resets, updates, fillerColor, fillerSize, nPeriods>>

LifePeriod ==
    \E sample \in Samples :
        /\ Alive
        /\ deviceRunning
        /\ nPeriods < MaxLifePeriods
        /\ Len(updates) < MaxQueue
        /\ ClipDetected(variant, sample) => Len(resets) < MaxClips
        /\ Data(<<sample>>)

LifeNext ==
    \/ \E ok \in BOOLEAN : DeviceStart(ok)
    \/ LifePeriod
    \/ UIUpdate
    \/ Tick
    \/ \E i \in DOMAIN resets : ResetCheck(i)
    \/ \E i \in DOMAIN resets : ResetWrite(i)
    \/ Signal
    \/ UIReturn
    \/ UISend
    \/ MainReceive
    \/ DeviceUninit
    \/ AppStop
    \/ Exit

LifeSpec == LaunchInit /\ [][LifeNext]_vars

\* the Go scheduler runs the main goroutine and the UI goroutine
LifeFairness ==
    /\ WF_vars(\E ok \in BOOLEAN : DeviceStart(ok))
    /\ WF_vars(MainReceive)
    /\ WF_vars(DeviceUninit)
    /\ WF_vars(AppStop)
    /\ WF_vars(Exit)
    /\ WF_vars(UISend)

LifeLiveSpec == LifeSpec /\ LifeFairness

(***************************************************************************)
(* Shutdown claims.                                                        *)
(***************************************************************************)
\* C13: on every shutdown path audio capture is stopped before the UI is
\* torn down: the UI is never stopped while capture still runs.
C13_CaptureStoppedBeforeUI == uiLoop = "stopped" => ~deviceRunning

\* the main goroutine blocks on <-done and has a reason to wake
UIReturned == pcMain = "wait" /\ uiLoop = "stopped"
SignalPending == pcMain = "wait" /\ done = 1
CleanExit == pcMain = "exited" /\ exitStatus = 0

\* C15: once the UI event loop has returned while the main goroutine waits
\* on done, the main goroutine is woken through the done channel, stops
\* capture, stops the UI and exits with status 0, by the same steps as
\* after a termination signal.
C15_UIReturnTakesSignalPath ==
    /\ UIReturned ~> CleanExit
    /\ SignalPending ~> CleanExit
    /\ [](CleanExit => (~deviceRunning /\ uiLoop = "stopped"))
    /\ [][pcMain' # pcMain
          => /\ pcMain = "wait"
                 => (done = 1 /\ done' = 0 /\ pcMain' = "uninit")
             /\ pcMain = "uninit"
                 => (~deviceRunning' /\ uiLoop' = uiLoop /\ pcMain' = "stop")
             /\ pcMain = "stop"
                 => (uiLoop' = "stopped" /\ pcMain' = "exit")
             /\ pcMain = "exit" => CleanExit']_vars

\* the value that woke the main goroutine was sent by the UI goroutine
\* after the event loop returned; no signal is left in the channel
C15_Witness ==
    /\ CleanExit
    /\ uiGo = "end"
    /\ done = 0
    /\ nPeriods >= 1

====
